---- MODULE Spec2Model ----
(***************************************************************************)
(* Model of the moderation-and-recovery core of maxtyrsa/mamaai.           *)
(*                                                                         *)
(* The process is one asyncio event loop: a task runs without             *)
(* interruption from one suspension point (an await that really waits:    *)
(* bot.get_me, bot.send_message, asyncio.sleep, notify_admins) to the      *)
(* next.  `cpu` names the task that is between two suspension points;      *)
(* every other task can only act when cpu = "none".                        *)
(*                                                                         *)
(* Time is read on a clock whose resolution is the periodic interval       *)
(* (6 hours): `tod` is the hour of the day and every row of                *)
(* message_history carries its age in hours.  The process clock            *)
(* (datetime.now) and SQLite's datetime('now') are taken to agree          *)
(* (a host running in UTC).                                                *)
(*                                                                         *)
(* The specifications share the actions: Spec (the bot in service within  *)
(* one calendar day), SpecBurst (the backlog of an outage, which wakes     *)
(* the monitor), FairSpec (the automatic runs over the days, with the      *)
(* clock and the event loop's fairness), SpecLive (the live pipeline),     *)
(* SpecLimiter (the rate limiter alone), SpecEval (advanced_spam_check     *)
(* alone) and SpecCommand (the operator's command).                        *)
(***************************************************************************)
EXTENDS Integers, Sequences, FiniteSets, TLC

VARIABLES
    phase,          \* "boot" | "running" | "stopping": BotRunner life cycle
    is_recovering,  \* MessageRecoverySystem.is_recovering
    msgs,           \* table message_history, in id order
    recovery_log,   \* table recovery_log (its most recent MaxLog rows)
    trust_score,    \* per sender, user_behavior[sender]['trust_score']
    user_behavior,  \* per sender, the other fields of user_behavior[sender]
    run,            \* per task: where its recovery run stands
    cpu,            \* the task running between two suspension points
    tod,            \* hour of the day of the clock
    periodic_due,   \* the periodic task's 6 hour sleep has elapsed
    faults,         \* failures injected so far
    user_limits,    \* RateLimiter.user_limits: per sender, the age in seconds
                    \* of each recorded timestamp, oldest first
    call            \* the last call of advanced_spam_check made on its own
                    \* (not from a handler): its arguments, what it did and
                    \* what it returned

vars == <<phase, is_recovering, msgs, recovery_log, trust_score, user_behavior,
          run, cpu, tod, periodic_due, faults, user_limits, call>>

(***************************************************************************)
(* Bounds of the model.                                                    *)
(***************************************************************************)
MaxRows == 2
MaxFaults == 1
MaxLog == 1
MaxStamps == 6
MaxCount == 2
MaxChecks == 2

(***************************************************************************)
(* Constants of the program.                                               *)
(***************************************************************************)
STARTUP_HOURS == 24
PERIODIC_HOURS == 6
MONITOR_HOURS == 1
MONITOR_THRESHOLD == 5
FORCE_DEFAULT_HOURS == 24
FORCE_MAX_HOURS == 168
DEFAULT_TRUST == 50
USER_RATE_LIMIT == 5
WINDOW_SECONDS == 60

NULL == {}
Some(x) == {x}

Runners == {"startup", "periodic", "monitor", "admin"}
ForceRunners == {"monitor", "admin"}
Kinds == {"short", "normal"}

\* The senders the rate limiter knows; Sender is the one whose messages and
\* trust the store and trust_score follow.
Senders == {"u1", "u2"}
Sender == "u1"

AgeCap == STARTUP_HOURS + 24

IdleRun == [pc |-> "idle", hours |-> 0, cands |-> <<>>, i |-> 0,
            processed |-> 0, spam |-> 0, errors |-> 0, skipped |-> 0,
            last_send |-> "none"]

\* A row of message_history as save_unprocessed_message leaves it.
FreshUnresolved(kind) ==
    [kind |-> kind, age |-> 0, is_spam |-> NULL, response_text |-> NULL,
     spam_score |-> NULL]

\* No call of advanced_spam_check has been made on its own.
NoCall == [n |-> 0, sender |-> "none", kind |-> "none", hard |-> 0, rules |-> 0,
           white |-> 0, pattern |-> 0, metrics |-> 0, behavior |-> 0,
           gap |-> "none", trust |-> 0, answer |-> "none", total |-> 0,
           judged |-> FALSE, consulted |-> FALSE, is_spam |-> FALSE, score |-> 0]

\* user_behavior[sender] of a sender not seen so far (the defaultdict's
\* factory), without its trust_score.
NewUser == [message_count |-> 0, spam_count |-> 0, warning_count |-> 0,
            last_activity |-> NULL]

\* The memory of a process that has just been constructed (BotRunner,
\* MessageRecoverySystem.__init__, AdvancedSpamDetector.__init__).
InitMemory ==
    /\ phase = "boot"
    /\ is_recovering = FALSE
    /\ trust_score = [s \in Senders |-> DEFAULT_TRUST]
    /\ user_behavior = [s \in Senders |-> NewUser]
    /\ run = [r \in Runners |-> IdleRun]
    /\ cpu = "none"
    /\ periodic_due = FALSE
    /\ faults = 0
    /\ recovery_log = <<>>
    /\ user_limits = [s \in Senders |-> <<>>]
    /\ call = NoCall

\* The trust a sender can have come to, at and next to the ends of the
\* tiers.
TrustLevels == {0, 19, 20, 49, 50, 79, 80, 100}

\* A process in service in which Sender has sent messages before, each
\* judged when it came (and none of them left a row: the store failed,
\* which handle_spam and handle_legitimate_message pass over); the other
\* senders are new.
InitEval ==
    /\ phase = "running"
    /\ is_recovering = FALSE
    /\ trust_score \in {t \in [Senders -> TrustLevels \cup {DEFAULT_TRUST}] :
                            \A s \in Senders \ {Sender} : t[s] = DEFAULT_TRUST}
    /\ user_behavior = [s \in Senders |->
                          IF s = Sender
                          THEN [message_count |-> MaxCount, spam_count |-> MaxCount,
                                warning_count |-> MaxCount,
                                last_activity |-> Some(WINDOW_SECONDS \div 2)]
                          ELSE NewUser]
    /\ run = [r \in Runners |-> IdleRun]
    /\ cpu = "none"
    /\ periodic_due = FALSE
    /\ faults = 0
    /\ recovery_log = <<>>
    /\ user_limits = [s \in Senders |-> <<>>]
    /\ call = NoCall
    /\ tod = 0
    /\ msgs = <<>>

\* The first start of the bot, on an empty store.
Init ==
    /\ InitMemory
    /\ tod = 0
    /\ msgs = <<>>

\* A start on the store an outage has just left: MONITOR_THRESHOLD messages
\* that handle_all_messages could not dispatch and save_unprocessed_message
\* saved, each of one character.
InitBurst ==
    /\ InitMemory
    /\ tod = 0
    /\ msgs = [m \in 1..MONITOR_THRESHOLD |-> FreshUnresolved("short")]

(***************************************************************************)
(* The durable store.                                                      *)
(***************************************************************************)
Row(kind, is_spam, response_text) ==
    [kind |-> kind, age |-> 0, is_spam |-> is_spam,
     response_text |-> response_text, spam_score |-> NULL]

Insert(row) == Append(msgs, row)

\* The calendar day, counted from today, of the instant `h` hours ago.
DayOf(h) == ((tod - h) + 24 * 8) \div 24 - 8

\* WHERE mh.timestamp >= datetime('now', '-h hours'): timestamp is written as
\* datetime.isoformat() ('2024-05-01T10:00:00.123456'), the bound is
\* '2024-05-01 10:00:00'; the strings are compared character by character,
\* so the dates decide and on equal dates 'T' is above ' '.
TimestampInQuery(age, h) == DayOf(age) >= DayOf(h)

\* The window [now - h, now] itself.
InWindow(age, h) == age <= h

\* The rows get_unprocessed_messages selects, and the rows with a verdict.
Unresolved(row) == row.is_spam = NULL /\ row.response_text = NULL
Terminal(row) == row.is_spam # NULL

RECURSIVE InOrder(_)
InOrder(S) ==
    IF S = {} THEN <<>>
    ELSE LET m == CHOOSE x \in S : \A y \in S : x <= y
         IN  <<[id |-> m, kind |-> msgs[m].kind, is_spam |-> msgs[m].is_spam,
                response_text |-> msgs[m].response_text]>> \o InOrder(S \ {m})

get_unprocessed_messages(h) ==
    InOrder({m \in 1..Len(msgs) :
                /\ TimestampInQuery(msgs[m].age, h)
                /\ msgs[m].is_spam = NULL
                /\ msgs[m].response_text = NULL})

mark_message_processed(m, is_spam, response_text, spam_score) ==
    [msgs EXCEPT ![m] = [@ EXCEPT !.is_spam = Some(is_spam),
                                  !.response_text = Some(response_text),
                                  !.spam_score = Some(spam_score)]]

log_recovery(type, processed, spam, total, success) ==
    LET all == Append(recovery_log,
                      [recovery_type |-> type, processed_count |-> processed,
                       spam_count |-> spam, total_messages |-> total,
                       success |-> success])
    IN  IF Len(all) > MaxLog THEN Tail(all) ELSE all

RecoveryType(r) == IF r \in ForceRunners THEN "forced_recovery" ELSE "auto_recovery"

(***************************************************************************)
(* Moderation, as the recovery and live paths see it: the verdict of       *)
(* advanced_spam_check depends on the text, the sender's tier, the time    *)
(* since the sender's last activity and the classifier's answer, which     *)
(* are inputs here; scores are in tenths.                                  *)
(***************************************************************************)
Verdicts(kind) ==
    IF kind = "short" THEN {[spam |-> FALSE, score |-> 0, trivial |-> TRUE]}
    ELSE {[spam |-> TRUE, score |-> 41, trivial |-> FALSE],
          [spam |-> FALSE, score |-> 10, trivial |-> FALSE]}

\* A trust update without its limits.
update_user_trust_unclamped(t, is_spam) == IF is_spam THEN t - 20 ELSE t + 1
update_user_trust_score(t, is_spam) ==
    IF is_spam THEN (IF t - 20 > 0 THEN t - 20 ELSE 0)
    ELSE (IF t + 1 < 100 THEN t + 1 ELSE 100)

\* The counters of the model stop at MaxCount.
Bump(n) == IF n < MaxCount THEN n + 1 ELSE n

\* behavioral_analysis, what it leaves in user_behavior[sender].
Seen(b) ==
    [b EXCEPT !.message_count = IF b.last_activity = NULL THEN 1 ELSE Bump(@),
              !.last_activity = Some(0)]

\* A count of spam verdicts without the warnings.
CountedSpamOnly(b, is_spam) == IF is_spam THEN [b EXCEPT !.spam_count = Bump(@)] ELSE b
\* update_user_trust_score, what it leaves in the counters.
Counted(b, is_spam) ==
    IF is_spam THEN [b EXCEPT !.spam_count = Bump(@), !.warning_count = Bump(@)]
    ELSE b

\* trust_score and user_behavior after advanced_spam_check has returned
\* verdict v on a message of Sender.
TrustAfter(v) ==
    IF v.trivial THEN trust_score
    ELSE [trust_score EXCEPT ![Sender] = update_user_trust_score(@, v.spam)]

BehaviorAfter(v) ==
    IF v.trivial THEN user_behavior
    ELSE [user_behavior EXCEPT ![Sender] = Counted(Seen(@), v.spam)]

(***************************************************************************)
(* advanced_spam_check in detail (moderation.py).  A text is what the      *)
(* analyses see of it: whether it is shorter than 2 characters, its        *)
(* pattern score (a multiple of 0.5, counted in halves) and its metrics    *)
(* score.  Scores are in hundredths here.                                  *)
(***************************************************************************)
PatternHalves == {0, 3, 5, 6, 10, 12, 13, 19}
MetricsScores == {0, 1, 2}

\* In halves: what a hard spam phrase adds and a whitelist phrase takes.
HARD_PHRASE == 10
WHITELIST_PHRASE == 2

\* The texts: of one character; with matches of the weighted rules only
\* (rules: the sum of their weights in halves); with one hard spam phrase,
\* alone or next to two whitelist phrases; with whitelist phrases only or
\* next to one rule of weight 1.5.
ShortText == [kind |-> "short", hard |-> 0, rules |-> 0, white |-> 0, metrics |-> 0]
Texts ==
    {ShortText}
    \cup [kind : {"normal"}, hard : {0}, rules : PatternHalves, white : {0},
          metrics : MetricsScores]
    \cup [kind : {"normal"}, hard : {1}, rules : {0}, white : {0, 2}, metrics : {0}]
    \cup [kind : {"normal"}, hard : {0}, rules : {0, 3}, white : {2}, metrics : {0}]

\* "Купите дешево!!! http://x.co": the rule of links (2) and the rule of
\* repeated marks (0.5) match, no rule of commerce does ("купите" is not
\* among its words), no hard phrase, no whitelist phrase; three words, each
\* once, give a repetition score of 1.0 and so a metrics score of 2.
ScenarioText == [kind |-> "normal", hard |-> 0, rules |-> 5, white |-> 0, metrics |-> 2]

\* pattern_based_analysis, in halves.
pattern_based_analysis(text) ==
    LET spam_score == HARD_PHRASE * text.hard + text.rules - WHITELIST_PHRASE * text.white
    IN  IF spam_score > 0 THEN spam_score ELSE 0
Answers == {"spam", "norm", "fail"}

\* len(text.strip()) < 2
TooShortNever(kind) == FALSE
TooShort(kind) == kind = "short"

\* The time since the sender's last activity, as far as the clock tells.
Gap(s) ==
    IF user_behavior[s].last_activity = NULL THEN "first"
    ELSE IF user_behavior[s].last_activity = Some(0) THEN "seconds"
    ELSE "longer"

\* behavioral_analysis, its result: 0 on the first message, 2 or 1 when the
\* last activity is less than 10 or 30 seconds ago (both within one step of
\* the clock), else -1 above a trust of 70 and 0 below.
behavioral_analysis(s) ==
    IF user_behavior[s].last_activity = NULL THEN {0}
    ELSE IF user_behavior[s].last_activity = Some(0) THEN {2, 1}
    ELSE IF trust_score[s] > 70 THEN {-1}
    ELSE {0}

\* The texts and behaviours whose weighted sum, in binary floating point,
\* is the double just below 1.0, 2.0, 3.0 or 4.0 while the exact sum is that
\* number (pattern scores up to 9.5); for no text is it the double above.
BelowWhole ==
    {<<1, 2, 1>>, <<2, 1, 1>>, <<3, -1, 4>>, <<3, 0, 1>>, <<4, -1, 1>>,
     <<4, 2, 2>>, <<6, -1, 5>>, <<6, 0, 2>>,
     <<9, 1, 0>>,
     <<11, 1, 4>>, <<12, 0, 4>>, <<12, 1, 1>>}

\* pattern_score * 0.6 + behavior_score * 0.3 + metrics_score * 0.1; a sum
\* just below a whole number is one hundredth below it.
total_score(pattern, behavior, metrics) ==
    30 * pattern + 30 * behavior + 10 * metrics
        - (IF <<pattern, behavior, metrics>> \in BelowWhole THEN 1 ELSE 0)

\* A ladder of tiers that trusts the banned.
get_user_trust_level_upside_down(t) ==
    IF t >= 80 THEN "banned"
    ELSE IF t >= 50 THEN "suspicious"
    ELSE IF t >= 20 THEN "neutral"
    ELSE "trusted"
get_user_trust_level(t) ==
    IF t >= 80 THEN "trusted"
    ELSE IF t >= 50 THEN "neutral"
    ELSE IF t >= 20 THEN "suspicious"
    ELSE "banned"

\* One threshold, that of the neutral tier, for every tier.
thresholds_flat(level) == 300
thresholds(level) ==
    CASE level = "trusted" -> 400
      [] level = "neutral" -> 300
      [] level = "suspicious" -> 200
      [] level = "banned" -> 100

\* A borderline without its ends.
BorderlineOpen(total) == 200 < total /\ total < 400
\* 2.0 <= total_score <= 4.0
Borderline(total) == 200 <= total /\ total <= 400

\* A classifier whose failure counts as its answer.
ai_spam_check_unguarded(answer) == answer # "norm"
\* ai_spam_check: whether the answer holds the word for spam; an exception
\* of the model call is caught and gives False.
ai_spam_check(answer) == answer = "spam"

\* An escalation that keeps the score.
EscalatedKept(total) == total
\* max(total_score, 4.1)
Escalated(total) == IF total > 410 THEN total ELSE 410

\* The whole store of user_behavior, for a write to one sender.
WrittenAll(s) == Senders
\* The senders whose user_behavior entry a check of a message of s writes.
Written(s) == {s}

\* One call of advanced_spam_check(text, s), the classifier answering
\* `answer` if it is asked, at most MaxChecks calls in a row.
Evaluate(s) ==
    /\ cpu = "none"
    /\ call.n < MaxChecks
    /\ \E text \in Texts, answer \in Answers, behavior \in behavioral_analysis(s) :
        LET kind == text.kind
            pattern == pattern_based_analysis(text)
            metrics == text.metrics
            total == total_score(pattern, behavior, metrics)
            judged == total >= thresholds(get_user_trust_level(trust_score[s]))
            consulted == Borderline(total)
            ai_result == consulted /\ ai_spam_check(answer)
            is_spam == judged \/ ai_result
            score == IF ai_result THEN Escalated(total) ELSE total
        IN  IF TooShort(kind)
            THEN /\ call' = [NoCall EXCEPT !.n = call.n + 1, !.sender = s,
                                            !.kind = kind, !.trust = trust_score[s]]
                 /\ UNCHANGED <<trust_score, user_behavior>>
            ELSE /\ call' = [n |-> call.n + 1, sender |-> s, kind |-> kind,
                             hard |-> text.hard, rules |-> text.rules,
                             white |-> text.white,
                             pattern |-> pattern, metrics |-> metrics,
                             behavior |-> behavior, gap |-> Gap(s),
                             trust |-> trust_score[s],
                             answer |-> IF consulted THEN answer ELSE "none",
                             total |-> total, judged |-> judged,
                             consulted |-> consulted, is_spam |-> is_spam,
                             score |-> score]
                 /\ trust_score' = [o \in Senders |->
                        IF o \in Written(s)
                        THEN update_user_trust_score(trust_score[o], is_spam)
                        ELSE trust_score[o]]
                 /\ user_behavior' = [o \in Senders |->
                        IF o \in Written(s)
                        THEN Counted(Seen(user_behavior[o]), is_spam)
                        ELSE user_behavior[o]]
    /\ UNCHANGED <<phase, is_recovering, msgs, recovery_log, run, cpu, tod,
                   periodic_due, faults, user_limits>>

Fault == faults < MaxFaults /\ faults' = faults + 1
NoFault == faults' = faults

(***************************************************************************)
(* The rate limiter (moderation.py, class RateLimiter).  Its clock has a   *)
(* resolution of half the window; a timestamp as old as the window or      *)
(* older is kept at StampCap.                                              *)
(***************************************************************************)
ClockStep == WINDOW_SECONDS \div 2
StampCap == WINDOW_SECONDS

\* timestamp > minute_ago
InLastMinute(age) == age < WINDOW_SECONDS

\* A check_limit that also records the call.
PrunedAndStamped(s) == Append(SelectSeq(user_limits[s], InLastMinute), 0)
\* check_limit, first statement: the list without its old entries.
Pruned(s) == SelectSeq(user_limits[s], InLastMinute)

\* A check_limit that counts every recorded timestamp.
check_limit_unpruned(s) == Len(user_limits[s]) < USER_RATE_LIMIT
\* check_limit, result.
check_limit(s) == Len(Pruned(s)) < USER_RATE_LIMIT

\* record_message, first statement.
Stamped(s) == Append(user_limits[s], 0)

\* The recorded timestamps of sender s that lie within the last minute.
InWindowCount(s) ==
    Cardinality({k \in DOMAIN user_limits[s] : user_limits[s][k] < WINDOW_SECONDS})

\* A call of RateLimiter.check_limit.
CheckLimit(s) ==
    /\ user_limits' = [user_limits EXCEPT ![s] = Pruned(s)]
    /\ UNCHANGED <<phase, is_recovering, msgs, recovery_log, trust_score, user_behavior, run,
                   cpu, tod, periodic_due, faults, call>>

\* A call of RateLimiter.record_message: the timestamp, and the row of
\* message_history.
RecordMessage(s) ==
    /\ Len(msgs) < MaxStamps
    /\ user_limits' = [user_limits EXCEPT ![s] = Stamped(s)]
    /\ msgs' = Append(msgs, [kind |-> "normal", age |-> 0, is_spam |-> Some(FALSE),
                             response_text |-> NULL, spam_score |-> NULL])
    /\ UNCHANGED <<phase, is_recovering, recovery_log, trust_score, user_behavior, run, cpu,
                   tod, periodic_due, faults, call>>

\* user_behavior[sender] one step of the clock later: what matters of
\* last_activity is whether it is less than ClockStep seconds ago.
Aged(b) == IF b.last_activity = NULL THEN b ELSE [b EXCEPT !.last_activity = Some(ClockStep)]

\* The clock of the limiter and of behavioral_analysis advances by its
\* resolution.
Advance ==
    /\ cpu = "none"
    /\ \/ \E s \in Senders : \E k \in DOMAIN user_limits[s] : user_limits[s][k] < StampCap
       \/ \E s \in Senders : user_behavior[s].last_activity = Some(0)
    /\ user_limits' = [s \in Senders |->
                         [k \in DOMAIN user_limits[s] |->
                            IF user_limits[s][k] + ClockStep < StampCap
                            THEN user_limits[s][k] + ClockStep ELSE StampCap]]
    /\ user_behavior' = [s \in Senders |-> Aged(user_behavior[s])]
    /\ UNCHANGED <<phase, is_recovering, msgs, recovery_log, trust_score, run,
                   cpu, tod, periodic_due, faults, call>>

(***************************************************************************)
(* A recovery run.  run[r].pc:                                             *)
(*   "idle"    no run of task r                                            *)
(*   "getme"   start_recovery_check waits for bot.get_me                   *)
(*   "next"    at the head of the candidate loop, running (after continue) *)
(*   "send"    _try_send_reply waits for bot.send_message                  *)
(*   "sleep"   asyncio.sleep between two candidates                        *)
(*   "notify"  _notify_admins_recovery waits for the notifier              *)
(***************************************************************************)
Active(r) == run[r].pc \in {"next", "send", "sleep", "notify"}
Working(r) == run[r].pc # "idle"

\* A finally clause that leaves the flag as it is.
FinallyKept(r) == is_recovering
\* The finally clauses of start_recovery_check and force_recovery; the
\* periodic loop has none.
Finally(r) == IF r = "periodic" THEN is_recovering ELSE FALSE

\* The run of task r returns to its caller.
Return(r) ==
    /\ run' = [run EXCEPT ![r] = IdleRun]
    /\ cpu' = "none"
    /\ is_recovering' = Finally(r)
    /\ phase' = IF r = "startup" THEN "running" ELSE phase
    /\ periodic_due' = IF r = "periodic" THEN FALSE ELSE periodic_due

\* From the fetch of the candidates to the first candidate, or to the return
\* when there is none or the store fails.
Fetch(r, h) ==
    \/ /\ Fault
       /\ recovery_log' = log_recovery(RecoveryType(r), 0, 0, 0, FALSE)
       /\ Return(r)
       /\ UNCHANGED <<msgs, trust_score, user_behavior, tod>>
    \/ /\ NoFault
       /\ get_unprocessed_messages(h) = <<>>
       /\ Return(r)
       /\ UNCHANGED <<msgs, recovery_log, trust_score, user_behavior, tod>>
    \/ /\ NoFault
       /\ get_unprocessed_messages(h) # <<>>
       /\ run' = [run EXCEPT ![r] = [IdleRun EXCEPT !.pc = "next", !.hours = h,
                                        !.cands = get_unprocessed_messages(h),
                                        !.i = 1]]
       /\ cpu' = r
       /\ is_recovering' = IF r = "periodic" THEN is_recovering ELSE TRUE
       /\ UNCHANGED <<phase, msgs, recovery_log, trust_score, user_behavior, tod, periodic_due>>

\* start_recovery_check, to its wait for get_me.
StartupBegin ==
    /\ phase = "boot" /\ cpu = "none" /\ run["startup"].pc = "idle"
    /\ ~is_recovering
    /\ is_recovering' = TRUE
    /\ run' = [run EXCEPT !["startup"].pc = "getme"]
    /\ UNCHANGED <<phase, msgs, recovery_log, trust_score, user_behavior, cpu, tod,
                   periodic_due, faults>>
    /\ UNCHANGED <<user_limits, call>>

\* get_me answers or raises; on an answer _recover_messages() starts.
StartupGetMe ==
    /\ run["startup"].pc = "getme" /\ cpu = "none"
    /\ \/ /\ Fault
          /\ recovery_log' = log_recovery("auto_recovery", 0, 0, 0, FALSE)
          /\ Return("startup")
          /\ UNCHANGED <<msgs, trust_score, user_behavior, tod>>
       \/ Fetch("startup", STARTUP_HOURS)
    /\ UNCHANGED <<user_limits, call>>

\* The periodic loop wakes after interval_hours.
PeriodicWake ==
    /\ phase = "running" /\ cpu = "none" /\ run["periodic"].pc = "idle"
    /\ periodic_due
    /\ IF ~is_recovering
       THEN Fetch("periodic", PERIODIC_HOURS)
       ELSE /\ periodic_due' = FALSE
            /\ UNCHANGED <<phase, is_recovering, msgs, recovery_log,
                           trust_score, user_behavior, run, cpu, tod, faults>>
    /\ UNCHANGED <<user_limits, call>>

\* force_recovery finds a run in progress: it returns success False, and
\* its finally clause runs.
ForceDeclined(r) ==
    /\ is_recovering
    /\ is_recovering' = Finally(r)
    /\ UNCHANGED <<phase, msgs, recovery_log, trust_score, user_behavior, run, cpu, tod,
                   periodic_due, faults>>

force_recovery(r, h) ==
    \/ ForceDeclined(r)
    \/ /\ ~is_recovering
       /\ Fetch(r, h)

\* /force_recovery, without argument; updates are handled one at a time.
AdminForce ==
    /\ phase = "running" /\ cpu = "none" /\ run["admin"].pc = "idle"
    /\ force_recovery("admin", FORCE_DEFAULT_HOURS)
    /\ UNCHANGED <<user_limits, call>>

\* The first argument of the /force_recovery command: none or one that is
\* not a number (digits FALSE), or a number.
CommandArgs ==
    {[digits |-> FALSE, value |-> 0]} \cup
    {[digits |-> TRUE, value |-> n] : n \in {0, 1, FORCE_MAX_HOURS, FORCE_MAX_HOURS + 1, 1000}}

\* A command that takes the operator's number as it is.
hours_back_as_given(arg) == IF arg.digits THEN arg.value ELSE FORCE_DEFAULT_HOURS
\* force_recovery_command, the lookback it passes on.
hours_back(arg) ==
    IF arg.digits
    THEN (IF arg.value < FORCE_MAX_HOURS THEN arg.value ELSE FORCE_MAX_HOURS)
    ELSE FORCE_DEFAULT_HOURS

\* /force_recovery with whatever the operator writes after it.
ForceRecoveryCommand ==
    /\ phase = "running" /\ cpu = "none" /\ run["admin"].pc = "idle"
    /\ \E arg \in CommandArgs : force_recovery("admin", hours_back(arg))
    /\ UNCHANGED <<user_limits, call>>

\* monitor_unprocessed_messages wakes from its 300 s sleep.
MonitorWake ==
    /\ phase \in {"running", "stopping"} /\ cpu = "none"
    /\ run["monitor"].pc = "idle"
    /\ Len(get_unprocessed_messages(MONITOR_HOURS)) >= MONITOR_THRESHOLD
    /\ force_recovery("monitor", MONITOR_HOURS)
    /\ UNCHANGED <<user_limits, call>>

(***************************************************************************)
(* The candidate loop of _recover_messages and of force_recovery.          *)
(***************************************************************************)
Resumes(r) ==
    \/ run[r].pc = "next" /\ cpu = r
    \/ run[r].pc = "sleep" /\ cpu = "none"

\* The checks that skip a candidate; they read the row as it was fetched.
\* Only _recover_messages checks the text.
Skips(r, c) ==
    \/ r \notin ForceRunners /\ c.kind = "short"
    \/ c.is_spam # NULL
    \/ c.response_text # NULL

\* A `continue` that counts nothing.
ContinueUncounted(r, counter) ==
    /\ run' = [run EXCEPT ![r] = [@ EXCEPT !.i = @ + 1, !.pc = "next"]]
    /\ cpu' = r

\* `continue`: the next candidate follows without a suspension.
Continue(r, counter) ==
    /\ run' = [run EXCEPT ![r] = [@ EXCEPT ![counter] = @ + 1, !.i = @ + 1,
                                             !.pc = "next"]]
    /\ cpu' = r

\* generate_context_aware_reply answers a text, or (one of the failures of
\* the environment) nothing usable: the loop then takes its fixed reply.
Replies == {"reply", ""}
\* A loop that persists what the generator answered.
ReplyTextRaw(reply) == reply
ReplyText(reply) == IF reply = "" THEN "fallback" ELSE reply

\* One candidate, from the head of the loop to its first suspension.
Candidate(r) ==
    /\ Resumes(r)
    /\ run[r].i <= Len(run[r].cands)
    /\ LET c == run[r].cands[run[r].i] IN
       IF Skips(r, c)
       THEN /\ Continue(r, "skipped")
            /\ UNCHANGED <<phase, is_recovering, msgs, recovery_log,
                           trust_score, user_behavior, tod, periodic_due, faults>>
       ELSE \E v \in Verdicts(c.kind) :
            /\ trust_score' = TrustAfter(v)
            /\ user_behavior' = BehaviorAfter(v)
            /\ UNCHANGED <<phase, is_recovering, recovery_log, tod, periodic_due>>
            /\ \/ \* the spam branch, to asyncio.sleep
                  /\ v.spam /\ NoFault
                  /\ msgs' = mark_message_processed(c.id, TRUE, "found_in_recovery", v.score)
                  /\ run' = [run EXCEPT ![r] = [@ EXCEPT !.spam = @ + 1, !.i = @ + 1,
                                                           !.pc = "sleep"]]
                  /\ cpu' = "none"
               \/ \* the legitimate branch, to the wait for send_message
                  /\ ~v.spam
                  /\ \E reply \in Replies :
                        /\ IF reply = "" THEN Fault ELSE NoFault
                        /\ msgs' = mark_message_processed(c.id, FALSE, ReplyText(reply), v.score)
                  /\ run' = [run EXCEPT ![r].pc = "send"]
                  /\ cpu' = "none"
               \/ \* the reply generator or the store raises: except, continue
                  /\ Fault
                  /\ Continue(r, "errors")
                  /\ UNCHANGED msgs
    /\ UNCHANGED <<user_limits, call>>

\* The outcome of bot.send_message in _try_send_reply.
SendOutcomes == {"ok", "permanent", "transient"}

SendResult(r) ==
    /\ run[r].pc = "send" /\ cpu = "none"
    /\ \E out \in SendOutcomes :
        /\ IF out = "ok" THEN NoFault ELSE Fault
        /\ run' = [run EXCEPT ![r] =
                     [@ EXCEPT !.processed = IF out = "ok" THEN @ + 1 ELSE @,
                               !.errors = IF out = "ok" THEN @ ELSE @ + 1,
                               !.last_send = out,
                               !.i = @ + 1, !.pc = "sleep"]]
    /\ UNCHANGED <<phase, is_recovering, msgs, recovery_log, trust_score, user_behavior, cpu,
                   tod, periodic_due>>
    /\ UNCHANGED <<user_limits, call>>

\* After the last candidate: log_recovery, and the notification if anything
\* was processed.
FinishLoop(r) ==
    /\ Resumes(r)
    /\ run[r].i > Len(run[r].cands)
    /\ recovery_log' = log_recovery(RecoveryType(r), run[r].processed, run[r].spam,
                                    Len(run[r].cands), TRUE)
    /\ IF run[r].processed > 0 \/ run[r].spam > 0
       THEN /\ run' = [run EXCEPT ![r].pc = "notify"]
            /\ cpu' = "none"
            /\ UNCHANGED <<phase, is_recovering, periodic_due>>
       ELSE Return(r)
    /\ UNCHANGED <<msgs, trust_score, user_behavior, tod, faults>>
    /\ UNCHANGED <<user_limits, call>>

NotifyDone(r) ==
    /\ run[r].pc = "notify" /\ cpu = "none"
    /\ Return(r)
    /\ UNCHANGED <<msgs, recovery_log, trust_score, user_behavior, tod, faults>>
    /\ UNCHANGED <<user_limits, call>>

(***************************************************************************)
(* The live pipeline (handlers.py).  It only inserts rows.  Updates are    *)
(* handled one after the other, so no message is handled while the         *)
(* /force_recovery command is.  The rate limiter's answer is an input:     *)
(* a rejected message leaves no trace.                                     *)
(***************************************************************************)
LiveReady ==
    /\ phase = "running" /\ cpu = "none" /\ run["admin"].pc = "idle"

\* handle_message on a private message that the rate limiter admits:
\* record_message, advanced_spam_check, then handle_spam or
\* handle_legitimate_message (whose failure ends in save_unprocessed_message).
\* `cap` bounds the rows in the store.
handle_message(cap) ==
    /\ LiveReady
    /\ Len(msgs) + 2 <= cap
    /\ check_limit(Sender)
    /\ user_limits' = [user_limits EXCEPT ![Sender] = Append(Pruned(Sender), 0)]
    /\ \E v \in Verdicts("normal"), generated \in BOOLEAN :
        /\ trust_score' = TrustAfter(v)
        /\ user_behavior' = BehaviorAfter(v)
        /\ msgs' = Insert(Row("normal", Some(FALSE), NULL)) \o
                   << IF v.spam THEN Row("normal", Some(TRUE), Some("deleted_as_spam"))
                      ELSE IF generated THEN Row("normal", Some(FALSE), Some("reply"))
                      ELSE Row("normal", NULL, NULL) >>
    /\ UNCHANGED <<phase, is_recovering, recovery_log, run, cpu, tod,
                   periodic_due, faults, call>>

LiveMessage == handle_message(MaxRows)

\* handle_message on a private message that the rate limiter rejects: the
\* warning is sent and the handler returns.
LiveRejected ==
    /\ LiveReady
    /\ ~check_limit(Sender)
    /\ user_limits' = [user_limits EXCEPT ![Sender] = Pruned(Sender)]
    /\ UNCHANGED <<phase, is_recovering, msgs, recovery_log, trust_score, user_behavior, run,
                   cpu, tod, periodic_due, faults, call>>

\* handle_channel_comment: advanced_spam_check, handle_spam on a spam
\* verdict, else check_limit, record_message, the reply and its row (on a
\* failure save_unprocessed_message).
handle_channel_comment(cap) ==
    /\ LiveReady
    /\ \E v \in Verdicts("normal"), generated \in BOOLEAN :
        /\ trust_score' = TrustAfter(v)
        /\ user_behavior' = BehaviorAfter(v)
        /\ IF v.spam
           THEN /\ msgs' = Insert(Row("normal", Some(TRUE), Some("deleted_as_spam")))
                /\ UNCHANGED user_limits
           ELSE IF ~check_limit(Sender)
           THEN /\ user_limits' = [user_limits EXCEPT ![Sender] = Pruned(Sender)]
                /\ UNCHANGED msgs
           ELSE /\ user_limits' = [user_limits EXCEPT ![Sender] = Append(Pruned(Sender), 0)]
                /\ msgs' = Insert(Row("normal", Some(FALSE), NULL)) \o
                           << IF generated THEN Row("normal", Some(FALSE), Some("reply"))
                              ELSE Row("normal", NULL, NULL) >>
        /\ Len(msgs') <= cap
    /\ UNCHANGED <<phase, is_recovering, recovery_log, run, cpu, tod,
                   periodic_due, faults, call>>

\* The store holds at most the rows of USER_RATE_LIMIT admitted messages.
LiveRows == 2 * USER_RATE_LIMIT
PrivateMessage == handle_message(LiveRows)
ChannelComment == handle_channel_comment(LiveRows)

\* handle_all_messages catches an exception of the handler it dispatched to
\* and calls save_unprocessed_message with the text as received.
LiveFailure ==
    /\ LiveReady
    /\ Len(msgs) + 1 <= MaxRows
    /\ \E kind \in Kinds : msgs' = Insert(Row(kind, NULL, NULL))
    /\ UNCHANGED <<phase, is_recovering, recovery_log, trust_score, user_behavior, run, cpu,
                   tod, periodic_due, faults>>
    /\ UNCHANGED <<user_limits, call>>

(***************************************************************************)
(* Time, shutdown and restart.                                             *)
(***************************************************************************)
Older(age) == IF age + PERIODIC_HOURS < AgeCap THEN age + PERIODIC_HOURS ELSE AgeCap

\* asyncio.sleep(interval_hours * 3600) of the periodic loop returns.
Elapsed == periodic_due \/ (phase = "running" /\ run["periodic"].pc = "idle")

\* The sleep returns within the calendar day: no row changes its place in a
\* lookback query.
PeriodicElapsed ==
    /\ cpu = "none"
    /\ ~periodic_due /\ Elapsed
    /\ periodic_due' = TRUE
    /\ UNCHANGED <<phase, is_recovering, msgs, recovery_log, trust_score, user_behavior, run,
                   cpu, tod, faults>>
    /\ UNCHANGED <<user_limits, call>>

\* The clock advances by its resolution, between two runs (a run lasts
\* seconds).
Tick ==
    /\ cpu = "none" /\ phase = "running" /\ ~periodic_due
    /\ \A r \in Runners : run[r].pc = "idle"
    /\ tod' = (tod + PERIODIC_HOURS) % 24
    /\ msgs' = [m \in 1..Len(msgs) |-> [msgs[m] EXCEPT !.age = Older(@)]]
    /\ periodic_due' = Elapsed
    /\ user_limits' = [s \in Senders |-> [k \in DOMAIN user_limits[s] |-> StampCap]]
    /\ user_behavior' = [s \in Senders |-> Aged(user_behavior[s])]
    /\ UNCHANGED <<phase, is_recovering, recovery_log, trust_score, run, cpu, faults, call>>

\* BotRunner.shutdown calls MessageRecoverySystem.stop: the periodic task is
\* cancelled where it waits and the flag is reset.
Stop ==
    /\ phase = "running" /\ cpu = "none"
    /\ phase' = "stopping"
    /\ run' = [run EXCEPT !["periodic"] = IdleRun]
    /\ is_recovering' = FALSE
    /\ periodic_due' = FALSE
    /\ UNCHANGED <<msgs, recovery_log, trust_score, user_behavior, cpu, tod, faults>>
    /\ UNCHANGED <<user_limits, call>>

\* The process ends and a new one is started on the same store.
Restart ==
    /\ phase = "stopping" /\ cpu = "none"
    /\ phase' = "boot"
    /\ is_recovering' = FALSE
    /\ trust_score' = [s \in Senders |-> DEFAULT_TRUST]
    /\ user_behavior' = [s \in Senders |-> NewUser]
    /\ run' = [r \in Runners |-> IdleRun]
    /\ periodic_due' = FALSE
    /\ user_limits' = [s \in Senders |-> <<>>]
    /\ UNCHANGED <<msgs, recovery_log, cpu, tod, faults, call>>

\* The steps of a run in progress.
RunStep ==
    \/ \E r \in Runners : Candidate(r)
    \/ \E r \in Runners : SendResult(r)
    \/ \E r \in Runners : FinishLoop(r)
    \/ \E r \in Runners : NotifyDone(r)

\* The bot in service within one calendar day, with fewer than
\* MONITOR_THRESHOLD rows in the store: the monitor finds nothing to do.
Next ==
    \/ StartupBegin
    \/ StartupGetMe
    \/ PeriodicWake
    \/ AdminForce
    \/ RunStep
    \/ LiveMessage
    \/ LiveFailure
    \/ PeriodicElapsed
    \/ Stop
    \/ Restart

Spec == Init /\ [][Next]_vars

\* The bot working off the backlog of an outage, no new message arriving.
NextBurst ==
    \/ StartupBegin
    \/ StartupGetMe
    \/ PeriodicWake
    \/ AdminForce
    \/ MonitorWake
    \/ RunStep
    \/ PeriodicElapsed

SpecBurst == InitBurst /\ [][NextBurst]_vars

\* The bot in service over the days: the automatic runs, the messages the
\* live pipeline could not handle, and the clock.
NextClock ==
    \/ StartupBegin
    \/ StartupGetMe
    \/ PeriodicWake
    \/ RunStep
    \/ LiveFailure
    \/ Tick

\* The live pipeline alone: the messages of one sender within minutes.
NextLive ==
    \/ StartupBegin
    \/ StartupGetMe
    \/ PrivateMessage
    \/ LiveRejected
    \/ ChannelComment
    \/ Advance

SpecLive == Init /\ [][NextLive]_vars

\* The rate limiter alone, under every sequence of calls.
NextLimiter ==
    \/ \E s \in Senders : CheckLimit(s)
    \/ \E s \in Senders : RecordMessage(s)
    \/ Advance

SpecLimiter == Init /\ [][NextLimiter]_vars

\* The operator's command, on the messages the live pipeline could not
\* handle.
NextCommand ==
    \/ StartupBegin
    \/ StartupGetMe
    \/ LiveFailure
    \/ ForceRecoveryCommand
    \/ RunStep

SpecCommand == Init /\ [][NextCommand]_vars

\* advanced_spam_check alone, called for the messages of senders old and
\* new, seconds or minutes apart.
NextEval ==
    \/ \E s \in Senders : Evaluate(s)
    \/ Advance

SpecEval == InitEval /\ [][NextEval]_vars

\* The event loop runs every task that can run, the clock advances, and
\* at most MaxFaults operations fail.
FairSpec ==
    /\ Init /\ [][NextClock]_vars
    /\ WF_vars(StartupBegin) /\ WF_vars(StartupGetMe)
    /\ WF_vars(PeriodicWake) /\ WF_vars(RunStep) /\ WF_vars(Tick)

(***************************************************************************)
(* Properties.                                                             *)
(***************************************************************************)
FlagSetters == Runners \ {"periodic"}

\* C1: at most one recovery run is active (between the fetch of its
\* candidates and its return) at any time, however the runs are triggered.
C1_OneRunAtATime == Cardinality({r \in Runners : Active(r)}) <= 1

\* C2: every message persisted unresolved eventually has a verdict, the
\* automatic runs being triggered for ever and all but MaxFaults operations
\* succeeding.
C2_EventuallyTerminal ==
    \A m \in 1..MaxRows :
        (m <= Len(msgs) /\ Unresolved(msgs[m])) ~> (m <= Len(msgs) /\ Terminal(msgs[m]))

\* C3: a row that has a verdict keeps its verdict, its score and its
\* response through every later step.
C3_TerminalIsFinal ==
    [][\A m \in 1..Len(msgs) :
          Terminal(msgs[m]) =>
              /\ msgs'[m].is_spam = msgs[m].is_spam
              /\ msgs'[m].spam_score = msgs[m].spam_score
              /\ msgs'[m].response_text = msgs[m].response_text]_vars

\* C4: a row is without verdict exactly when it has neither a score nor a
\* response.
C4_UnresolvedIffBothAbsent ==
    \A m \in 1..Len(msgs) :
        (msgs[m].is_spam = NULL) <=>
            (msgs[m].spam_score = NULL /\ msgs[m].response_text = NULL)

\* C5: a run that met no failure ends with a verdict on every row it
\* fetched, and it has written to no row older than its lookback.
C5_RunResolvesItsWindow ==
    [][\A r \in Runners :
          /\ (FinishLoop(r) /\ run[r].errors = 0) =>
                \A k \in 1..Len(run[r].cands) : Terminal(msgs[run[r].cands[k].id])
          /\ Candidate(r) =>
                \A m \in 1..Len(msgs) :
                    msgs'[m] # msgs[m] => InWindow(msgs[m].age, run[r].hours)]_vars

\* C6: a run that comes to a candidate which has a verdict in the store by
\* now counts it as skipped and writes neither to the store nor to the
\* sender's trust.
C6_ResolvedCandidateSkipped ==
    [][\A r \in Runners :
          (Candidate(r) /\ Terminal(msgs[run[r].cands[run[r].i].id])) =>
              /\ run'[r].skipped = run[r].skipped + 1
              /\ UNCHANGED <<msgs, trust_score>>]_vars

\* C7: whenever a recovery run is between the fetch of its candidates and
\* its end, the in-progress flag is set.
C7_FlagSetWhileWorking == \A r \in Runners : Active(r) => is_recovering

\* C8: a run that set the in-progress flag leaves it cleared when it ends:
\* after its last candidate, on the failure of get_me, or in the very step
\* that started it (nothing to fetch, the store failing).  Hence the flag is
\* never set without a run at work that is going to clear it.
C8_FlagClearedAtEnd ==
    /\ [](is_recovering => \E r \in FlagSetters : Working(r))
    /\ [][(\A r \in FlagSetters :
               (Working(r) /\ run'[r].pc = "idle") => ~is_recovering')
           /\ ((~is_recovering /\ AdminForce) =>
                  (is_recovering' <=> run'["admin"].pc # "idle"))
           /\ ((~is_recovering /\ MonitorWake) =>
                  (is_recovering' <=> run'["monitor"].pc # "idle"))]_vars

\* C9: a call of force_recovery made while the flag is set changes neither
\* the flag, nor a message, nor the trust, nor the audit log.
C9_DeclinedChangesNothing ==
    [][(is_recovering /\ (AdminForce \/ MonitorWake)) =>
           UNCHANGED <<is_recovering, msgs, trust_score, recovery_log>>]_vars

\* C10: after a transient failure of send_message the run waits for a new
\* attempt to deliver the same reply.
C10_TransientIsRetried ==
    [][\A r \in Runners :
          (SendResult(r) /\ run'[r].last_send = "transient") =>
              (run'[r].pc = "send" /\ run'[r].i = run[r].i)]_vars

\* The run of task r has appended its record to recovery_log (which keeps
\* its last MaxLog records).
LogAppended(r) ==
    /\ recovery_log' # <<>>
    /\ recovery_log'[Len(recovery_log')].recovery_type = RecoveryType(r)
    /\ Len(recovery_log') > Len(recovery_log) \/ Len(recovery_log) = MaxLog

\* C11: a permanent failure of send_message (Forbidden) does not add to the
\* run's error counter.
C11_PermanentIsNoError ==
    [][\A r \in Runners :
          (SendResult(r) /\ run'[r].last_send = "permanent") =>
              run'[r].errors = run[r].errors]_vars

\* C12: a candidate judged legitimate is in the store with is_spam false, a
\* response that is not empty and its score before delivery is attempted,
\* and no outcome of the delivery writes to the store.
C12_LegitimatePersisted ==
    [][\A r \in Runners :
          /\ (Candidate(r) /\ run'[r].pc = "send") =>
                LET row == msgs'[run[r].cands[run[r].i].id] IN
                    /\ row.is_spam = Some(FALSE)
                    /\ row.response_text \notin {NULL, Some("")}
                    /\ row.spam_score # NULL
          /\ SendResult(r) => UNCHANGED msgs]_vars

\* C12: the delivery of a reply has failed and the message it answers is in
\* the store as legitimate, with its reply.
C12_Witness ==
    \E r \in Runners :
        /\ run[r].pc = "sleep"
        /\ run[r].last_send \in {"permanent", "transient"}
        /\ LET row == msgs[run[r].cands[run[r].i - 1].id] IN
               row.is_spam = Some(FALSE) /\ row.response_text = Some("reply")

\* C13: a run in which the store (or the generator) raises on a candidate
\* ends there, and its record in recovery_log has success false.
C13_StorageFailureAborts ==
    [][\A r \in Runners :
          (Candidate(r) /\ faults' # faults /\ run'[r].errors # run[r].errors) =>
              /\ run'[r].pc = "idle"
              /\ recovery_log' # <<>>
              /\ ~recovery_log'[Len(recovery_log')].success]_vars

\* C14: every run that starts work appends its record to recovery_log by
\* the time it ends: after its last candidate, or in the step that started
\* it when there is nothing to fetch or the fetch fails.
C14_OneRecordPerRun ==
    [][/\ \A r \in Runners : FinishLoop(r) => LogAppended(r)
       /\ (StartupGetMe /\ run'["startup"].pc = "idle") => LogAppended("startup")
       /\ (PeriodicWake /\ ~is_recovering /\ run'["periodic"].pc = "idle")
             => LogAppended("periodic")
       /\ (AdminForce /\ ~is_recovering /\ run'["admin"].pc = "idle")
             => LogAppended("admin")
       /\ (MonitorWake /\ ~is_recovering /\ run'["monitor"].pc = "idle")
             => LogAppended("monitor")]_vars

\* C15: the record a run appends carries the run's error and skipped
\* counts.
C15_RecordCarriesCounts ==
    [][\A r \in Runners :
          FinishLoop(r) =>
              LET rec == recovery_log'[Len(recovery_log')] IN
                  /\ {"error_count", "skipped_count"} \subseteq DOMAIN rec
                  /\ rec.error_count = run[r].errors
                  /\ rec.skipped_count = run[r].skipped]_vars

\* C16: when the handling of a live message ends, whatever its outcome, the
\* store holds one more row at least: the record of that message.
C16_LiveMessageRecorded ==
    [][(PrivateMessage \/ LiveRejected \/ ChannelComment) =>
           Len(msgs') > Len(msgs)]_vars

\* C17: check_limit answers true exactly when fewer than USER_RATE_LIMIT of
\* the sender's recorded timestamps lie within the last WINDOW_SECONDS, and
\* a timestamp leaves the list only when it is no longer among these.
C17_AdmitIffBelowLimit ==
    /\ [](\A s \in Senders : check_limit(s) <=> InWindowCount(s) < USER_RATE_LIMIT)
    /\ [][\A s \in Senders :
              Len(user_limits'[s]) < Len(user_limits[s]) =>
                  InWindowCount(s)' = InWindowCount(s)]_vars

\* C17: a sender has USER_RATE_LIMIT timestamps within the window and is
\* rejected, next to older timestamps that do not count.
C17_Witness ==
    \E s \in Senders :
        /\ InWindowCount(s) = USER_RATE_LIMIT
        /\ Len(user_limits[s]) > USER_RATE_LIMIT
        /\ ~check_limit(s)

\* C18: check_limit adds no timestamp and takes no slot, and neither
\* check_limit nor record_message for one sender changes the list or the
\* admission of another.
C18_AdmitAddsNothing ==
    [][\A s \in Senders :
          /\ CheckLimit(s) =>
                /\ Len(user_limits'[s]) <= Len(user_limits[s])
                /\ InWindowCount(s)' = InWindowCount(s)
                /\ check_limit(s)' = check_limit(s)
          /\ (CheckLimit(s) \/ RecordMessage(s)) =>
                \A o \in Senders \ {s} :
                    /\ user_limits'[o] = user_limits[o]
                    /\ check_limit(o)' = check_limit(o)]_vars

\* C18: one sender is at the limit and rejected, after a check_limit that
\* pruned its list, while the other, with timestamps of its own, is admitted.
C18_Witness ==
    \E s \in Senders : \E o \in Senders \ {s} :
        /\ ~check_limit(s) /\ user_limits[s] = Pruned(s)
        /\ check_limit(o) /\ user_limits[o] # <<>>

\* C19: a live message changes the sender's trust (it is scored) only when
\* check_limit admits the sender.
C19_ScoredOnlyIfAdmitted ==
    [][((PrivateMessage \/ ChannelComment) /\ trust_score' # trust_score) =>
           check_limit(Sender)]_vars

\* C20: the trust value is an integer from 0 to 100 at all times; a live
\* message judged spam (its spam row is stored) takes 20 from it and stops at
\* 0, any other scored live message adds 1 and stops at 100, so that it falls
\* strictly above 0 and rises strictly below 100.
C20_TrustBounded ==
    /\ [](\A s \in Senders : trust_score[s] \in 0..100)
    /\ [][(PrivateMessage \/ ChannelComment) =>
             IF /\ Len(msgs') > Len(msgs)
                /\ msgs'[Len(msgs')].is_spam = Some(TRUE)
             THEN /\ trust_score'[Sender] =
                        (IF trust_score[Sender] < 20 THEN 0 ELSE trust_score[Sender] - 20)
                  /\ (trust_score[Sender] > 0 => trust_score'[Sender] < trust_score[Sender])
             ELSE /\ trust_score'[Sender] =
                        (IF trust_score[Sender] > 99 THEN 100 ELSE trust_score[Sender] + 1)
                  /\ (trust_score[Sender] < 100 => trust_score'[Sender] > trust_score[Sender])]_vars

\* C20: a spam verdict has brought the trust value down to 0, from a value
\* below 20.
C20_Witness ==
    /\ trust_score[Sender] = 0
    /\ msgs # <<>>
    /\ msgs[Len(msgs)].is_spam = Some(TRUE)

\* C21: the threshold is 1.0 below a trust of 20, 2.0 from 20, 3.0 from 50
\* and 4.0 from 80, so it never falls as the trust rises; the threshold step
\* judges by it, and a total it judges spam at the sender's trust it judges
\* spam at every lower trust.
C21_ThresholdOrdered ==
    /\ \A a \in 0..99 :
          thresholds(get_user_trust_level(a)) <= thresholds(get_user_trust_level(a + 1))
    /\ \A a \in 0..100 :
          thresholds(get_user_trust_level(a)) =
              (IF a < 20 THEN 100 ELSE IF a < 50 THEN 200 ELSE IF a < 80 THEN 300 ELSE 400)
    /\ call.kind = "normal" =>
          /\ call.judged <=>
                call.total >= (IF call.trust < 20 THEN 100 ELSE IF call.trust < 50 THEN 200
                               ELSE IF call.trust < 80 THEN 300 ELSE 400)
          /\ call.judged =>
                \A a \in 0..call.trust :
                    call.total >= thresholds(get_user_trust_level(a))

\* C21: the threshold step has judged the message of a trusted sender spam.
C21_Witness ==
    call.kind = "normal" /\ call.trust >= 80 /\ call.judged

\* C22: the classifier is asked exactly when the total is at least 2.0 and
\* at most 4.0, whatever the sender's trust.
C22_ConsultedIffBorderline ==
    call.kind = "normal" =>
        /\ call.consulted <=> (200 <= call.total /\ call.total <= 400)
        /\ call.consulted <=> call.answer # "none"

\* C22: a total of exactly 4.0, below the threshold of no tier but the
\* trusted one's, has been put to the classifier for a banned sender.
C22_Witness ==
    call.total = 400 /\ call.consulted /\ call.trust < 20

\* C23: when the classifier is asked and answers spam the verdict is spam
\* and the score at least 4.1; when it answers not spam the verdict and the
\* score of the threshold step stand; a spam verdict of the threshold step
\* always stands.
C23_ClassifierOnlyEscalates ==
    call.kind = "normal" =>
        /\ (call.consulted /\ call.answer = "spam") =>
                (call.is_spam /\ call.score >= 410)
        /\ (call.consulted /\ call.answer = "norm") =>
                (call.is_spam = call.judged /\ call.score = call.total)
        /\ call.judged => call.is_spam

\* C23: the classifier has turned a verdict of not spam into spam.
C23_Witness ==
    call.consulted /\ call.answer = "spam" /\ ~call.judged /\ call.is_spam
        /\ call.score = 410

\* C24: when the classifier is asked and fails, the call returns the
\* verdict and the score of the threshold step and records the observation
\* for the sender as after an answer of not spam.
C24_ClassifierFailureIgnored ==
    /\ [](call.answer = "fail" =>
            (call.is_spam = call.judged /\ call.score = call.total))
    /\ [][(call'.n = call.n + 1 /\ call'.answer = "fail") =>
             /\ trust_score'[call'.sender] =
                    (IF call'.judged
                     THEN (IF trust_score[call'.sender] < 20 THEN 0
                           ELSE trust_score[call'.sender] - 20)
                     ELSE (IF trust_score[call'.sender] > 99 THEN 100
                           ELSE trust_score[call'.sender] + 1))
             /\ user_behavior'[call'.sender].last_activity = Some(0)]_vars

\* C24: the classifier has failed on a message the threshold step did not
\* judge spam.
C24_Witness ==
    call.answer = "fail" /\ ~call.judged /\ ~call.is_spam

\* C25: a call on a text shorter than 2 characters returns not spam with
\* score 0, does not ask the classifier and changes no sender's trust,
\* counts or last activity.
C25_ShortTextChangesNothing ==
    [][(call'.n = call.n + 1 /\ call'.kind = "short") =>
          /\ ~call'.is_spam /\ call'.score = 0 /\ ~call'.consulted
          /\ trust_score' = trust_score
          /\ user_behavior' = user_behavior]_vars

\* C25: the last call was on a short text of a sender seen seconds before.
C25_Witness ==
    call.kind = "short" /\ call.n = MaxChecks
        /\ user_behavior[call.sender].last_activity = Some(0)

\* C26: a call for one sender changes no other sender's trust, counts or
\* last activity, no row of the store and no list of the rate limiter.
C26_OnlyTheSenderChanges ==
    [][call'.n = call.n + 1 =>
          /\ \A o \in Senders \ {call'.sender} :
                trust_score'[o] = trust_score[o] /\ user_behavior'[o] = user_behavior[o]
          /\ msgs' = msgs
          /\ user_limits' = user_limits]_vars

\* C26: a message of a new sender has been judged spam, next to a sender
\* with a history of its own.
C26_Witness ==
    /\ call.sender \in Senders \ {Sender} /\ call.is_spam
    /\ trust_score[call.sender] = DEFAULT_TRUST - 20
    /\ trust_score[Sender] = 100

\* C27: a second call on the same text of the same sender at the same
\* reading of the clock leaves the sender's trust and spam and warning
\* counts as the first call left them.
C27_SecondCallChangesNothing ==
    [][(/\ call'.n = call.n + 1 /\ call.kind = "normal"
        /\ call'.sender = call.sender /\ call'.kind = call.kind
        /\ call'.hard = call.hard /\ call'.rules = call.rules
        /\ call'.white = call.white /\ call'.metrics = call.metrics
        /\ user_behavior[call.sender].last_activity = Some(0)) =>
          /\ trust_score'[call.sender] = trust_score[call.sender]
          /\ user_behavior'[call.sender].spam_count = user_behavior[call.sender].spam_count
          /\ user_behavior'[call.sender].warning_count =
                user_behavior[call.sender].warning_count]_vars

\* C28: a restart of the process leaves every sender's trust, counts and
\* last activity as they were before it.
C28_TrustSurvivesRestart ==
    [][(phase = "stopping" /\ phase' = "boot") =>
          (trust_score' = trust_score /\ user_behavior' = user_behavior)]_vars

\* C29: once the shutdown has been signalled no recovery run starts and the
\* run in progress takes up no further candidate.
C29_NoWorkAfterShutdown ==
    [][phase = "stopping" =>
          /\ \A r \in Runners : run[r].pc = "idle" => run'[r].pc = "idle"
          /\ \A r \in Runners :
                (Resumes(r) /\ run[r].i <= Len(run[r].cands)) => run'[r] = run[r]]_vars

\* C30: a run started by the command or by the monitor looks back
\* FORCE_MAX_HOURS hours at most, whatever the operator has written.
C30_LookbackCapped ==
    \A r \in ForceRunners : run[r].hours <= 168

\* C30: a run of the command works with the longest lookback there is.
C30_Witness ==
    Active("admin") /\ run["admin"].hours = 168

\* C31: the message "Купите дешево!!! http://x.co" of a sender with trust 50
\* and no activity so far gets a total above 3.0 and the verdict spam, and
\* leaves the sender at trust 30.
C31_ScenarioIsSpam ==
    [][(/\ call'.n = call.n + 1
        /\ [kind |-> call'.kind, hard |-> call'.hard, rules |-> call'.rules,
            white |-> call'.white, metrics |-> call'.metrics] = ScenarioText
        /\ call'.trust = 50 /\ call'.gap = "first") =>
          /\ call'.total > 300
          /\ call'.is_spam
          /\ trust_score'[call'.sender] = 30]_vars

\* C32: the behaviour score is 2 or 1 when the last activity is seconds
\* ago, -1 when it is longer ago and the sender's tier is trusted (trust 80
\* or more) and 0 otherwise.
C32_BehaviorScoreByTier ==
    call.kind = "normal" =>
        /\ call.gap = "seconds" => call.behavior \in {1, 2}
        /\ (call.gap = "longer" /\ call.trust >= 80) => call.behavior = -1
        /\ (call.gap = "first" \/ (call.gap = "longer" /\ call.trust < 80)) =>
                call.behavior = 0

\* C35: the pattern score is the sum of the matched rules' weights less the
\* whitelist phrases', not below 0, plus 5 for each hard spam phrase: it is
\* never negative, and at least 5 with a hard spam phrase.
C35_HardPhraseCountsInFull ==
    call.kind = "normal" =>
        /\ call.pattern >= 0
        /\ call.pattern =
              (IF call.rules - 2 * call.white > 0 THEN call.rules - 2 * call.white ELSE 0)
                  + 10 * call.hard
        /\ call.hard > 0 => call.pattern >= 10

\* C36: for every sender the spam count equals the warning count and is at
\* most the message count; a call that reaches a verdict adds one to the
\* message count (below MaxCount, where the model stops counting) and sets
\* the last activity to now, and adds one to the spam and warning counts on
\* a spam verdict and nothing otherwise.
C36_CountsInStep ==
    /\ [](\A s \in Senders :
            /\ user_behavior[s].spam_count = user_behavior[s].warning_count
            /\ user_behavior[s].spam_count <= user_behavior[s].message_count)
    /\ [][(call'.n = call.n + 1 /\ call'.kind = "normal") =>
             LET b == user_behavior[call'.sender]
                 a == user_behavior'[call'.sender]
                 Next1(k) == IF k < MaxCount THEN k + 1 ELSE k
             IN  /\ a.message_count = Next1(b.message_count)
                 /\ a.last_activity = Some(0)
                 /\ a.spam_count = (IF call'.is_spam THEN Next1(b.spam_count) ELSE b.spam_count)
                 /\ a.warning_count =
                        (IF call'.is_spam THEN Next1(b.warning_count) ELSE b.warning_count)]_vars

\* C36: a new sender has two messages judged, one of them spam.
C36_Witness ==
    \E s \in Senders \ {Sender} :
        /\ user_behavior[s].message_count = 2
        /\ user_behavior[s].spam_count = 1
        /\ user_behavior[s].warning_count = 1
        /\ call.sender = s /\ ~call.is_spam

\* C37: a call on a text of 2 characters or more returns spam exactly when
\* the score it returns is at least the threshold of the sender's tier at
\* the time of the call.
C37_VerdictMatchesScore ==
    call.kind = "normal" =>
        (call.is_spam <=>
            call.score >= (IF call.trust < 20 THEN 100 ELSE IF call.trust < 50 THEN 200
                           ELSE IF call.trust < 80 THEN 300 ELSE 400))

\* C37: the classifier has made spam of a trusted sender's message whose
\* total was below the sender's threshold; the score returned is 4.1.
C37_Witness ==
    /\ call.kind = "normal" /\ call.trust >= 80
    /\ ~call.judged /\ call.is_spam /\ call.score = 410 /\ call.total < 400

\* The candidate run r scores in this step: one it does not skip, of a text
\* long enough to be scored.
Scores(r) ==
    /\ Resumes(r)
    /\ run[r].i <= Len(run[r].cands)
    /\ ~Skips(r, run[r].cands[run[r].i])
    /\ ~TooShort(run[r].cands[run[r].i].kind)
    /\ \/ run'[r].pc = "send"
       \/ run'[r].i = run[r].i + 1

\* Message m arrived hours before now and hours apart from every other
\* message of the sender.
ArrivedApart(m) ==
    /\ msgs[m].age > 0
    /\ \A o \in 1..Len(msgs) : o # m => msgs[o].age # msgs[m].age

\* C33: recovery scores a candidate as the live path would have scored it
\* on arrival: a candidate that arrived hours apart from the sender's other
\* messages gets no burst score (+1 or +2) from behavioral_analysis.
C33_NoBurstFromProcessing ==
    [][\A r \in Runners :
          (Scores(r) /\ ArrivedApart(run[r].cands[run[r].i].id))
              => behavioral_analysis(Sender) \cap {1, 2} = {}]_vars

\* C34: the run the monitor starts on its own is recorded as an automatic
\* run: the record it appends does not carry the kind of the operator's
\* forced run.
C34_MonitorRunIsAutomatic ==
    [][FinishLoop("monitor")
          => recovery_log'[Len(recovery_log')].recovery_type # RecoveryType("admin")]_vars

\* The candidates run r has counted so far.
CountedCandidates(r) ==
    run[r].processed + run[r].spam + run[r].errors + run[r].skipped

\* C38: when a run leaves its candidate loop, every candidate has been
\* counted in exactly one of processed, spam, errors and skipped: the four
\* counters add up to the number of candidates; within the loop they add up
\* to the number of candidates the run has left behind.
C38_EveryCandidateCounted ==
    /\ [](\A r \in Runners :
            run[r].pc \in {"next", "send", "sleep"}
                => CountedCandidates(r) = run[r].i - 1)
    /\ [][\A r \in Runners :
            FinishLoop(r) => CountedCandidates(r) = Len(run[r].cands)]_vars

\* A run has left its loop over two candidates, one of them skipped or
\* failed, the other answered or marked as spam.
C38_Witness ==
    \E r \in Runners :
        /\ run[r].pc = "notify"
        /\ Len(run[r].cands) = 2
        /\ run[r].errors + run[r].skipped = 1
        /\ run[r].processed + run[r].spam = 1

\* C39: a reply of recovery reaches its recipient only for a message that
\* is in the store as legitimate, with its reply: never for one whose row
\* says spam or is unresolved.
C39_ReplyOnlyForLegitimate ==
    [][\A r \in Runners :
          (SendResult(r) /\ run'[r].last_send = "ok") =>
              LET row == msgs[run[r].cands[run[r].i].id] IN
                  /\ row.is_spam = Some(FALSE)
                  /\ row.response_text # NULL]_vars

\* C8: a forced run has been logged as completed and has returned, and the
\* flag is clear.
C8_Witness ==
    /\ recovery_log # <<>>
    /\ recovery_log[Len(recovery_log)].recovery_type = "forced_recovery"
    /\ recovery_log[Len(recovery_log)].success
    /\ recovery_log[Len(recovery_log)].total_messages > 0
    /\ phase = "running"
    /\ \A r \in Runners : run[r].pc = "idle"
    /\ ~is_recovering

====
